---- MODULE Spec2Model ----
(***************************************************************************)
(* Model of uscope.hpp (BenchmarkState, BenchmarkRunner) and of the        *)
(* console reporter of gbench-example.cpp (ToExponentAndMantissa,          *)
(* ExponentToPrefix, PrintRunData).                                        *)
(*                                                                         *)
(* Spec      : BenchmarkRunner driving benchmark functions that call       *)
(*             BenchmarkState::keep_running().                             *)
(* SpecSkip  : Spec plus the skip signal of the design (no code of the     *)
(*             repository sets State::Skipped).                            *)
(* SpecFmt   : ToBinaryStringFullySpecified applied to one value.          *)
(* SpecPrint : ConsoleReporter::PrintRunData applied to one result.        *)
(* SpecTime  : FormatTime applied to one time.                             *)
(*                                                                         *)
(* A double is modelled exactly, as (n / Den) * one_k^e with n / Den in   *)
(* [1, one_k) or n = 0: dividing or multiplying by one_k moves e, and a    *)
(* comparison with a threshold is a comparison of integers.  The mantissa  *)
(* is the value that is inserted into mantissa_stream.  The text that     *)
(* std::format produces is modelled by its format string and arguments.   *)
(* A time is modelled exactly, as +-(hi * 100000 + lo + frac / Den).       *)
(***************************************************************************)
EXTENDS Integers, Sequences, FiniteSets, TLC

(* ------------------------------ bounds --------------------------------- *)
MaxIter == 3        \* largest Config::iteration_count explored
MaxBench == 2       \* largest number of registered benchmarks
MaxRuns == 2        \* largest number of run_all_benchmarks() calls
MaxClock == 2       \* largest steady_clock reading
MaxExtra == 1       \* keep_running() calls explored beyond the N+1 of a loop
Den == 2            \* a value is a multiple of 1/Den times a power of one_k
LowMant == 12       \* mantissas explored from 1 up to LowMant ...
HighMant == 2       \* ... and from one_k - HighMant up to one_k
MaxExp == 9         \* powers of one_k explored: -MaxExp..MaxExp
MaxPrecision == 1   \* precisions explored: -1..MaxPrecision
MaxCounters == 2    \* largest number of counters of a result
MaxPrefixExp == 16  \* exponents passed to ExponentToPrefix: -MaxPrefixExp..

VARIABLES
    config,         \* BenchmarkRunner::config_
    benchmarks,     \* BenchmarkRunner::benchmarks_ (registration order)
    pc,             \* position of main / run_all_benchmarks / the function
    idx,            \* position of the range-for of run_all_benchmarks
    state,          \* the BenchmarkState local of the loop body
    clock,          \* std::chrono::steady_clock
    ret,            \* result of the last keep_running() on state, as text
    calls,          \* keep_running() calls made on state
    trues,          \* of which returned true
    sid,            \* identity of the BenchmarkState object (constructions)
    runs,           \* run_all_benchmarks() calls made
    executed,       \* names executed by the current run_all_benchmarks()
    observed,       \* <<v>>: remaining_iterations() returned v since the
                    \* last keep_running() on state; <<>> when not called
    val,            \* ToBinaryStringFullySpecified: value
    precision,      \* ToBinaryStringFullySpecified: precision
    one_k,          \* ToBinaryStringFullySpecified: one_k (1000 or 1024)
    mantissa,       \* ToExponentAndMantissa: *mantissa
    exponent,       \* ToExponentAndMantissa: *exponent
    str,            \* value returned by ToBinaryStringFullySpecified
    fpc,            \* "call" before, "return" after the call
    result,         \* PrintRunData: const Run& result
    output_options_,    \* ConsoleReporter::output_options_
    name_field_width_,  \* ConsoleReporter::name_field_width_
    Out,            \* what PrintRunData wrote to GetOutputStream()
    ppc,            \* "call" before, "return" after PrintRunData
    time,           \* FormatTime: double time
    time_str,       \* value returned by FormatTime
    tpc,            \* "call" before, "return" after FormatTime
    prefix_exponent,    \* ExponentToPrefix: exponent
    prefix_iec,     \* ExponentToPrefix: iec
    prefix,         \* value returned by ExponentToPrefix
    xpc             \* "call" before, "return" after ExponentToPrefix

runnerVars == <<config, benchmarks, pc, idx, state, clock, ret, calls, trues,
                sid, runs, executed, observed>>
fmtVars == <<val, precision, one_k, mantissa, exponent, str, fpc>>
printVars == <<result, output_options_, name_field_width_, Out, ppc>>
timeVars == <<time, time_str, tpc>>
prefixVars == <<prefix_exponent, prefix_iec, prefix, xpc>>
reporterVars == <<fmtVars, printVars, timeVars, prefixVars>>
vars == <<runnerVars, reporterVars>>

(* ------------------------- BenchmarkState ------------------------------ *)
States == {"NotStarted", "Started", "Finished", "Skipped"}

\* explicit BenchmarkState(Iteration iteration_count); the time_points are
\* value-initialised to the clock's epoch.
BenchmarkState(iteration_count) ==
    [total_iterations_ |-> iteration_count,
     remaining_iterations_ |-> iteration_count,
     state_ |-> "NotStarted",
     begin_ |-> 0,
     end_ |-> 0,
     iterations_time_ |-> <<>>]

\* iterations_time_.reserve(total_iterations_): a negative count converts to
\* a size_type above max_size() and reserve throws std::length_error.
ReserveThrows(iteration_count) == iteration_count < 0

\* No BenchmarkState object is alive (outside the loop body).
NoObject ==
    [total_iterations_ |-> 0, remaining_iterations_ |-> 0,
     state_ |-> "NoObject", begin_ |-> 0, end_ |-> 0,
     iterations_time_ |-> <<>>]

\* The switch without the break of the NotStarted case: the first call
\* falls through into the Started case.
SwitchState_FallsThrough(s, t1) ==
    CASE s.state_ \in {"NotStarted", "Started"} ->
            [s EXCEPT !.state_ = "Started",
                      !.end_ = t1,
                      !.iterations_time_ = Append(@, t1 - s.begin_)]
      [] OTHER -> s

\* The switch whose Started case reads the clock but records no sample.
SwitchState_NoSample(s, t1) ==
    CASE s.state_ = "NotStarted" -> [s EXCEPT !.state_ = "Started"]
      [] s.state_ = "Started" -> [s EXCEPT !.end_ = t1]
      [] OTHER -> s

\* The switch of keep_running(): t1 is the clock read in the Started case.
SwitchState(s, t1) ==
    CASE s.state_ = "NotStarted" -> [s EXCEPT !.state_ = "Started"]
      [] s.state_ = "Started" ->
            [s EXCEPT !.end_ = t1,
                      !.iterations_time_ = Append(@, t1 - s.begin_)]
      [] OTHER -> s

\* keep_running() deciding with >= 0 instead of > 0.
KeepRunning_OneMore(s, t1, t2) ==
    IF s.state_ \in {"Finished", "Skipped"}
    THEN [state |-> s, ret |-> FALSE]
    ELSE LET a == SwitchState(s, t1)
             should_run == a.remaining_iterations_ >= 0
             b == [a EXCEPT !.remaining_iterations_ = @ - 1,
                            !.state_ = IF should_run THEN @ ELSE "Finished",
                            !.begin_ = t2]
         IN [state |-> b, ret |-> should_run]

\* keep_running() whose Finished label sits with the Started case: a call
\* after the end closes out one more interval.
KeepRunning_FinishedRecords(s, t1, t2) ==
    IF s.state_ = "Skipped"
    THEN [state |-> s, ret |-> FALSE]
    ELSE LET a == SwitchState([s EXCEPT !.state_ =
                                  IF @ = "Finished" THEN "Started" ELSE @], t1)
             should_run == a.remaining_iterations_ > 0
             b == [a EXCEPT !.remaining_iterations_ = @ - 1,
                            !.state_ = IF should_run THEN @ ELSE "Finished",
                            !.begin_ = t2]
         IN [state |-> b, ret |-> should_run]

\* keep_running() whose early return lacks the Skipped label.
KeepRunning_SkippedRuns(s, t1, t2) ==
    IF s.state_ = "Finished"
    THEN [state |-> s, ret |-> FALSE]
    ELSE LET a == SwitchState(s, t1)
             should_run == a.remaining_iterations_ > 0
             b == [a EXCEPT !.remaining_iterations_ = @ - 1,
                            !.state_ = IF should_run THEN @ ELSE "Finished",
                            !.begin_ = t2]
         IN [state |-> b, ret |-> should_run]

\* keep_running() that rearms a terminal object for another measurement.
KeepRunning_Rearm(s, t1, t2) ==
    IF s.state_ \in {"Finished", "Skipped"}
    THEN [state |-> [s EXCEPT !.state_ = "NotStarted"], ret |-> FALSE]
    ELSE LET a == SwitchState(s, t1)
             should_run == a.remaining_iterations_ > 0
             b == [a EXCEPT !.remaining_iterations_ = @ - 1,
                            !.state_ = IF should_run THEN @ ELSE "Finished",
                            !.begin_ = t2]
         IN [state |-> b, ret |-> should_run]

\* keep_running() that opens the next interval with the reading that closed
\* the previous one (begin_ = end_) instead of a new one.
KeepRunning_BeginIsEnd(s, t1, t2) ==
    IF s.state_ \in {"Finished", "Skipped"}
    THEN [state |-> s, ret |-> FALSE]
    ELSE LET a == SwitchState(s, t1)
             should_run == a.remaining_iterations_ > 0
             b == [a EXCEPT !.remaining_iterations_ = @ - 1,
                            !.state_ = IF should_run THEN @ ELSE "Finished",
                            !.begin_ = a.end_]
         IN [state |-> b, ret |-> should_run]

\* keep_running() marking the object Skipped when no iteration remains.
KeepRunning_EndsSkipped(s, t1, t2) ==
    IF s.state_ \in {"Finished", "Skipped"}
    THEN [state |-> s, ret |-> FALSE]
    ELSE LET a == SwitchState(s, t1)
             should_run == a.remaining_iterations_ > 0
             b == [a EXCEPT !.remaining_iterations_ = @ - 1,
                            !.state_ = IF should_run THEN @ ELSE "Skipped",
                            !.begin_ = t2]
         IN [state |-> b, ret |-> should_run]

\* keep_running() running the first iteration whatever the count is.
KeepRunning_FirstAlwaysRuns(s, t1, t2) ==
    IF s.state_ \in {"Finished", "Skipped"}
    THEN [state |-> s, ret |-> FALSE]
    ELSE LET a == SwitchState(s, t1)
             should_run == a.remaining_iterations_ > 0 \/ s.state_ = "NotStarted"
             b == [a EXCEPT !.remaining_iterations_ = @ - 1,
                            !.state_ = IF should_run THEN @ ELSE "Finished",
                            !.begin_ = t2]
         IN [state |-> b, ret |-> should_run]

\* bool BenchmarkState::keep_running(); t1 and t2 are the two readings of
\* steady_clock::now() (t1 in the Started case, t2 before the return).
KeepRunning(s, t1, t2) ==
    IF s.state_ \in {"Finished", "Skipped"}
    THEN [state |-> s, ret |-> FALSE]
    ELSE LET a == SwitchState(s, t1)
             should_run == a.remaining_iterations_ > 0
             b == [a EXCEPT !.remaining_iterations_ = @ - 1,
                            !.state_ = IF should_run THEN @ ELSE "Finished",
                            !.begin_ = t2]
         IN [state |-> b, ret |-> should_run]

\* Iteration BenchmarkState::remaining_iterations() const
remaining_iterations(s) == s.remaining_iterations_

(* ------------------------- benchmark functions ------------------------- *)
\* "loop": while (state.keep_running()) { work } as test_sleep_1ms does.
\* "free": any callable; it calls keep_running() any number of times.
\* The benchmarks main() may register: a name and its function.
Registrations ==
    {[name |-> "test_sleep_1ms", function |-> "loop"],
     [name |-> "other", function |-> "free"]}

\* The formatter is not in a call.
FmtIdle ==
    /\ val = [neg |-> FALSE, n |-> 0, e |-> 0]
    /\ precision = 1
    /\ one_k = 1000
    /\ mantissa = [neg |-> FALSE, n |-> 0, e |-> 0]
    /\ exponent = 0
    /\ str = <<>>
    /\ fpc = "idle"

\* The reporter is not in a call.
PrintIdle ==
    /\ result = [benchmark_name |-> ""]
    /\ output_options_ = {}
    /\ name_field_width_ = 0
    /\ Out = <<>>
    /\ ppc = "idle"

\* FormatTime is not in a call.
TimeIdle ==
    /\ time = [neg |-> FALSE, hi |-> 0, lo |-> 0, frac |-> 0]
    /\ time_str = [kind |-> "text", fmt |-> "", args |-> <<>>]
    /\ tpc = "idle"

\* ExponentToPrefix is not in a call.
PrefixIdle ==
    /\ prefix_exponent = 0
    /\ prefix_iec = FALSE
    /\ prefix = ""
    /\ xpc = "idle"

Init ==
    /\ FmtIdle
    /\ PrintIdle
    /\ TimeIdle
    /\ PrefixIdle
    /\ config \in [iteration_count : 1..MaxIter]
    /\ benchmarks = <<>>
    /\ pc = "main"
    /\ idx = 0
    /\ state = NoObject
    /\ clock = 0
    /\ ret = "none"
    /\ calls = 0
    /\ trues = 0
    /\ sid = 0
    /\ runs = 0
    /\ executed = <<>>
    /\ observed = <<>>

\* BenchmarkRunner::add_benchmark: emplace_back at the end of benchmarks_.
add_benchmark(name, function) ==
    /\ pc = "main"
    /\ Len(benchmarks) < MaxBench
    /\ benchmarks' = Append(benchmarks, [name_ |-> name, function_ |-> function])
    /\ UNCHANGED <<config, pc, idx, state, clock, ret, calls, trues, sid, runs,
                   executed, observed>>
    /\ UNCHANGED reporterVars

\* run_all_benchmarks whose loop starts at the second element.
run_all_benchmarks_FromSecond ==
    /\ pc = "main"
    /\ runs < MaxRuns
    /\ runs' = runs + 1
    /\ idx' = 2
    /\ executed' = <<>>
    /\ pc' = "for"
    /\ UNCHANGED <<config, benchmarks, state, clock, ret, calls, trues, sid,
                   observed>>
    /\ UNCHANGED reporterVars

\* BenchmarkRunner::run_all_benchmarks: entry, the range-for starts at begin().
run_all_benchmarks ==
    /\ pc = "main"
    /\ runs < MaxRuns
    /\ runs' = runs + 1
    /\ idx' = 1
    /\ executed' = <<>>
    /\ pc' = "for"
    /\ UNCHANGED <<config, benchmarks, state, clock, ret, calls, trues, sid,
                   observed>>
    /\ UNCHANGED reporterVars

\* One evaluation of the range-for head: past the end the call returns,
\* otherwise the body constructs a BenchmarkState and enters execute(); an
\* exception of the constructor leaves run_all_benchmarks() and main(),
\* which have no handler.
for_benchmark ==
    /\ pc = "for"
    /\ IF idx > Len(benchmarks)
       THEN /\ pc' = "main"
            /\ UNCHANGED <<state, sid, ret, calls, trues, executed, observed>>
       ELSE IF ReserveThrows(config.iteration_count)
       THEN /\ pc' = "terminate"
            /\ UNCHANGED <<state, sid, ret, calls, trues, executed, observed>>
       ELSE /\ pc' = "execute"
            /\ state' = BenchmarkState(config.iteration_count)
            /\ sid' = sid + 1
            /\ ret' = "none"
            /\ calls' = 0
            /\ trues' = 0
            /\ executed' = Append(executed, benchmarks[idx].name_)
            /\ observed' = <<>>
    /\ UNCHANGED <<config, benchmarks, idx, clock, runs>>
    /\ UNCHANGED reporterVars

\* The number of keep_running() calls explored on one object.
MaxCalls == MaxIter + 1 + MaxExtra

\* The benchmark function calls state.keep_running(); the clock may advance
\* between the call's two readings.
keep_running ==
    /\ pc = "execute"
    /\ calls < MaxCalls
    /\ benchmarks[idx].function_ = "loop" => ret # "false"
    /\ \E t1 \in clock..MaxClock : \E t2 \in t1..MaxClock :
          LET r == KeepRunning(state, t1, t2)
          IN /\ state' = r.state
             /\ ret' = IF r.ret THEN "true" ELSE "false"
             /\ trues' = IF r.ret THEN trues + 1 ELSE trues
             /\ clock' = t2
    /\ calls' = calls + 1
    /\ observed' = <<>>
    /\ UNCHANGED <<config, benchmarks, pc, idx, sid, runs, executed>>
    /\ UNCHANGED reporterVars

\* The benchmark function returns; the loop body ends and destroys state.
execute_return ==
    /\ pc = "execute"
    /\ benchmarks[idx].function_ = "loop" => ret = "false"
    /\ pc' = "for"
    /\ idx' = idx + 1
    /\ state' = NoObject
    /\ UNCHANGED <<config, benchmarks, clock, ret, calls, trues, sid, runs,
                   executed, observed>>
    /\ UNCHANGED reporterVars

Next ==
    \/ \E b \in Registrations : add_benchmark(b.name, b.function)
    \/ run_all_benchmarks
    \/ for_benchmark
    \/ keep_running
    \/ execute_return

Spec == Init /\ [][Next]_vars

(* ------------------------- any iteration_count ------------------------- *)
\* As Init, with a Config whose iteration_count may be zero or negative.
InitZero ==
    /\ FmtIdle
    /\ PrintIdle
    /\ TimeIdle
    /\ PrefixIdle
    /\ config \in [iteration_count : (0 - 1)..MaxIter]
    /\ benchmarks = <<>>
    /\ pc = "main"
    /\ idx = 0
    /\ state = NoObject
    /\ clock = 0
    /\ ret = "none"
    /\ calls = 0
    /\ trues = 0
    /\ sid = 0
    /\ runs = 0
    /\ executed = <<>>
    /\ observed = <<>>

\* The benchmark function calls state.remaining_iterations().
remaining_iterations_call ==
    /\ pc = "execute"
    /\ observed = <<>>
    /\ observed' = <<remaining_iterations(state)>>
    /\ UNCHANGED <<config, benchmarks, pc, idx, state, clock, ret, calls, trues,
                   sid, runs, executed>>
    /\ UNCHANGED reporterVars

NextZero ==
    \/ \E b \in Registrations : add_benchmark(b.name, b.function)
    \/ run_all_benchmarks
    \/ for_benchmark
    \/ keep_running
    \/ remaining_iterations_call
    \/ execute_return

SpecZero == InitZero /\ [][NextZero]_vars

(* ----------------------------- skip signal ----------------------------- *)
\* The design's side branch NotStarted/Started -> Skipped: external code
\* marks the benchmark skipped.  uscope.hpp has no operation that does it.
skip ==
    /\ pc = "execute"
    /\ state.state_ \in {"NotStarted", "Started"}
    /\ state' = [state EXCEPT !.state_ = "Skipped"]
    /\ UNCHANGED <<config, benchmarks, pc, idx, clock, ret, calls, trues, sid,
                   runs, executed, observed>>
    /\ UNCHANGED reporterVars

NextSkip ==
    \/ \E b \in Registrations : add_benchmark(b.name, b.function)
    \/ run_all_benchmarks
    \/ for_benchmark
    \/ keep_running
    \/ execute_return
    \/ skip

SpecSkip == Init /\ [][NextSkip]_vars

(* --------------------------- magnitude formatter ----------------------- *)
kBigSIUnits == <<"k", "M", "G", "T", "P", "E", "Z", "Y">>
kBigIECUnits == <<"Ki", "Mi", "Gi", "Ti", "Pi", "Ei", "Zi", "Yi">>
kSmallSIUnits == <<"m", "u", "n", "p", "f", "a", "z", "y">>
kUnitsSize == Len(kBigSIUnits)

\* benchmark::Counter::OneK and the double passed to ToExponentAndMantissa.
OneK == {"kIs1000", "kIs1024"}
OneKValue(oneK) == IF oneK = "kIs1024" THEN 1024 ELSE 1000

\* scaled /= one_k and scaled *= one_k.
Divided(v) == IF v.n = 0 THEN v ELSE [v EXCEPT !.e = @ - 1]
Multiplied(v) == IF v.n = 0 THEN v ELSE [v EXCEPT !.e = @ + 1]

\* The sign of v - p/q for a value v >= 0 and a threshold p/q that lies in
\* [1/b, b*b), as the thresholds of ToExponentAndMantissa do.
Compare(v, b, p, q) ==
    LET d == IF v.n = 0 THEN 0 - 1
             ELSE IF v.e >= 2 THEN 1
             ELSE IF v.e <= 0 - 2 THEN 0 - 1
             ELSE IF v.e = 1 THEN v.n * b * q - p * Den
             ELSE IF v.e = 0 THEN v.n * q - p * Den
             ELSE v.n * q - p * Den * b
    IN IF d > 0 THEN 1 ELSE IF d < 0 THEN 0 - 1 ELSE 0

RECURSIVE Pow10(_)
Pow10(k) == IF k <= 0 THEN 1 ELSE 10 * Pow10(k - 1)

\* std::max(1.0, 1.0 / std::pow(10.0, precision))
AdjustedThreshold(p) == IF p >= 0 THEN 1 ELSE Pow10(0 - p)
\* (adjusted_threshold * one_k) - 1
BigThreshold(p, b) == AdjustedThreshold(p) * b - 1

\* The positive-powers loop testing scaled < big_threshold.
RECURSIVE PositivePowers_Strict(_, _, _, _)
PositivePowers_Strict(scaled, b, big_threshold, i) ==
    IF i >= kUnitsSize
    THEN [found |-> FALSE, scaled |-> scaled, exponent |-> 0]
    ELSE LET s == Divided(scaled)
         IN IF Compare(s, b, big_threshold, 1) < 0
            THEN [found |-> TRUE, scaled |-> s, exponent |-> i + 1]
            ELSE PositivePowers_Strict(s, b, big_threshold, i + 1)

\* The positive-powers loop: for (i = 0; i < 8; ++i) { scaled /= one_k; ... }
RECURSIVE PositivePowers(_, _, _, _)
PositivePowers(scaled, b, big_threshold, i) ==
    IF i >= kUnitsSize
    THEN [found |-> FALSE, scaled |-> scaled, exponent |-> 0]
    ELSE LET s == Divided(scaled)
         IN IF Compare(s, b, big_threshold, 1) <= 0
            THEN [found |-> TRUE, scaled |-> s, exponent |-> i + 1]
            ELSE PositivePowers(s, b, big_threshold, i + 1)

\* The negative-powers loop numbering the prefixes from zero.
RECURSIVE NegativePowers_ZeroIndexed(_, _, _, _)
NegativePowers_ZeroIndexed(scaled, b, small_threshold, i) ==
    IF i >= Len(kSmallSIUnits)
    THEN [found |-> FALSE, scaled |-> scaled, exponent |-> 0]
    ELSE LET s == Multiplied(scaled)
         IN IF Compare(s, b, small_threshold, 1) >= 0
            THEN [found |-> TRUE, scaled |-> s, exponent |-> 0 - i]
            ELSE NegativePowers_ZeroIndexed(s, b, small_threshold, i + 1)

\* The negative-powers loop testing scaled > small_threshold.
RECURSIVE NegativePowers_Strict(_, _, _, _)
NegativePowers_Strict(scaled, b, small_threshold, i) ==
    IF i >= Len(kSmallSIUnits)
    THEN [found |-> FALSE, scaled |-> scaled, exponent |-> 0]
    ELSE LET s == Multiplied(scaled)
         IN IF Compare(s, b, small_threshold, 1) > 0
            THEN [found |-> TRUE, scaled |-> s, exponent |-> 0 - (i + 1)]
            ELSE NegativePowers_Strict(s, b, small_threshold, i + 1)

\* The negative-powers loop: for (i = 0; i < 8; ++i) { scaled *= one_k; ... }
RECURSIVE NegativePowers(_, _, _, _)
NegativePowers(scaled, b, small_threshold, i) ==
    IF i >= Len(kSmallSIUnits)
    THEN [found |-> FALSE, scaled |-> scaled, exponent |-> 0]
    ELSE LET s == Multiplied(scaled)
         IN IF Compare(s, b, small_threshold, 1) >= 0
            THEN [found |-> TRUE, scaled |-> s, exponent |-> 0 - (i + 1)]
            ELSE NegativePowers(s, b, small_threshold, i + 1)

\* void ToExponentAndMantissa(val, precision, one_k, mantissa, exponent).
\* The result's mantissa is the sign written to mantissa_stream and the
\* value inserted after it.
ToExponentAndMantissa(v, p, b) ==
    LET sign == v.neg /\ v.n # 0
        a == [v EXCEPT !.neg = FALSE]
        adjusted_threshold == AdjustedThreshold(p)
        big_threshold == BigThreshold(p, b)
        small_threshold == adjusted_threshold
        unscaled == [mantissa |-> [a EXCEPT !.neg = sign], exponent |-> 0]
    IN IF Compare(a, b, big_threshold, 1) > 0
       THEN LET r == PositivePowers(a, b, big_threshold, 0)
            IN IF r.found
               THEN [mantissa |-> [r.scaled EXCEPT !.neg = sign],
                     exponent |-> r.exponent]
               ELSE unscaled
       ELSE IF Compare(a, b, small_threshold, 1) < 0
       THEN IF Compare(a, b, 1, 100) < 0
            THEN LET r == NegativePowers(a, b, small_threshold, 0)
                 IN IF r.found
                    THEN [mantissa |-> [r.scaled EXCEPT !.neg = sign],
                          exponent |-> r.exponent]
                    ELSE unscaled
            ELSE unscaled
       ELSE unscaled

\* ExponentToPrefix choosing the IEC table for every exponent when iec.
ExponentToPrefix_IecEverywhere(x, iec) ==
    IF x = 0 THEN ""
    ELSE LET index == IF x > 0 THEN x - 1 ELSE 0 - x - 1
         IN IF index >= kUnitsSize THEN ""
            ELSE IF iec THEN kBigIECUnits[index + 1]
                 ELSE IF x > 0 THEN kBigSIUnits[index + 1]
                 ELSE kSmallSIUnits[index + 1]

\* std::string ExponentToPrefix(int64_t exponent, bool iec)
ExponentToPrefix(x, iec) ==
    IF x = 0 THEN ""
    ELSE LET index == IF x > 0 THEN x - 1 ELSE 0 - x - 1
         IN IF index >= kUnitsSize THEN ""
            ELSE IF x > 0
                 THEN (IF iec THEN kBigIECUnits ELSE kBigSIUnits)[index + 1]
                 ELSE kSmallSIUnits[index + 1]

\* std::string ToBinaryStringFullySpecified(value, precision, one_k): the
\* mantissa text followed by the prefix.
ToBinaryStringFullySpecified(value, p, oneK) ==
    LET r == ToExponentAndMantissa(value, p, OneKValue(oneK))
    IN <<r.mantissa, ExponentToPrefix(r.exponent, oneK = "kIs1024")>>

\* std::string HumanReadableNumber(double n, benchmark::Counter::OneK one_k)
HumanReadableNumber(x, oneK) == ToBinaryStringFullySpecified(x, 1, oneK)

\* The mantissas explored for base b, in units of 1/Den.
Mantissas(b) ==
    {n \in Den..(b * Den - 1) : n <= LowMant * Den \/ n >= (b - HighMant) * Den}

\* The doubles explored for base b: zero and +-(n / Den) * b^e.
Doubles(b) ==
    {[neg |-> FALSE, n |-> 0, e |-> 0]}
        \cup [neg : BOOLEAN, n : Mantissas(b), e : (0 - MaxExp)..MaxExp]

RunnerIdle ==
    /\ config = [iteration_count |-> 1]
    /\ benchmarks = <<>>
    /\ pc = "main"
    /\ idx = 0
    /\ state = NoObject
    /\ clock = 0
    /\ ret = "none"
    /\ calls = 0
    /\ trues = 0
    /\ sid = 0
    /\ runs = 0
    /\ executed = <<>>
    /\ observed = <<>>

InitFmt ==
    /\ RunnerIdle
    /\ PrintIdle
    /\ TimeIdle
    /\ PrefixIdle
    /\ one_k \in OneK
    /\ val \in Doubles(OneKValue(one_k))
    /\ precision \in (0 - 1)..MaxPrecision
    /\ mantissa = [neg |-> FALSE, n |-> 0, e |-> 0]
    /\ exponent = 0
    /\ str = <<>>
    /\ fpc = "call"

\* One call of ToBinaryStringFullySpecified(val, precision, one_k).
to_binary_string ==
    /\ fpc = "call"
    /\ LET r == ToExponentAndMantissa(val, precision, OneKValue(one_k))
       IN /\ mantissa' = r.mantissa
          /\ exponent' = r.exponent
    /\ str' = ToBinaryStringFullySpecified(val, precision, one_k)
    /\ fpc' = "return"
    /\ UNCHANGED <<val, precision, one_k>>
    /\ UNCHANGED <<runnerVars, printVars, timeVars, prefixVars>>

NextFmt == to_binary_string

SpecFmt == InitFmt /\ [][NextFmt]_vars

\* The exponents passed to ExponentToPrefix.
Exponents == (0 - MaxPrefixExp)..MaxPrefixExp

InitPrefix ==
    /\ RunnerIdle
    /\ FmtIdle
    /\ PrintIdle
    /\ TimeIdle
    /\ prefix_exponent \in Exponents
    /\ prefix_iec \in BOOLEAN
    /\ prefix = ""
    /\ xpc = "call"

\* One call of ExponentToPrefix(exponent, iec).
exponent_to_prefix ==
    /\ xpc = "call"
    /\ prefix' = ExponentToPrefix(prefix_exponent, prefix_iec)
    /\ xpc' = "return"
    /\ UNCHANGED <<prefix_exponent, prefix_iec>>
    /\ UNCHANGED <<runnerVars, fmtVars, printVars, timeVars>>

NextPrefix == exponent_to_prefix

SpecPrefix == InitPrefix /\ [][NextPrefix]_vars

(* ---------------------------- console reporter ------------------------ *)
\* const char* GetAnsiColorCode(LogColor color)
GetAnsiColorCode(color) ==
    CASE color = "RED" -> "1"
      [] color = "GREEN" -> "2"
      [] color = "YELLOW" -> "3"
      [] color = "BLUE" -> "4"
      [] color = "MAGENTA" -> "5"
      [] color = "CYAN" -> "6"
      [] color = "WHITE" -> "7"
      [] OTHER -> "nullptr"

\* std::string GetBigOString(benchmark::BigO complexity)
GetBigOString(complexity) ==
    CASE complexity = "oN" -> "N"
      [] complexity = "oNSquared" -> "N^2"
      [] complexity = "oNCubed" -> "N^3"
      [] complexity = "oLogN" -> "lgN"
      [] complexity = "oNLogN" -> "NlgN"
      [] complexity = "o1" -> "(1)"
      [] OTHER -> "f(N)"

\* What is written to the stream: the text std::format(fmt, args...) makes,
\* the escape sequence ESC[0;3<code>m, or the reset sequence ESC[m.
Text(fmt, args) == [kind |-> "text", fmt |-> fmt, args |-> args]
EscColor(color_code) == [kind |-> "color", fmt |-> color_code, args |-> <<>>]
EscReset == [kind |-> "reset", fmt |-> "", args |-> <<>>]
\* An argument of std::format.
Arg(x) == ToString(x)
\* x * 100 as passed to std::format.
Times100(x) == <<"100*", x>>

\* A time is +-(hi * Limb + lo + frac / Den) with lo < Limb and frac < Den:
\* 9999999999 is hi = lo = Limb - 1, frac = 0.
Limb == 100000
TimeIsNegative(t) == t.neg /\ (t.hi # 0 \/ t.lo # 0 \/ t.frac # 0)
\* time < k for k in {1.0, 10.0, 100.0}
TimeBelow(t, k) == TimeIsNegative(t) \/ (t.hi = 0 /\ t.lo < k)
\* time > 9999999999
TimeAboveTenDigits(t) ==
    /\ ~TimeIsNegative(t)
    /\ \/ t.hi > Limb - 1
       \/ (t.hi = Limb - 1 /\ t.lo = Limb - 1 /\ t.frac > 0)
\* FormatTime switching to the scientific format at time >= 9999999999.
FormatTime_Inclusive(t) ==
    IF TimeBelow(t, 1) THEN Text("{:10.3f}", <<Arg(t)>>)
    ELSE IF TimeBelow(t, 10) THEN Text("{:10.2f}", <<Arg(t)>>)
    ELSE IF TimeBelow(t, 100) THEN Text("{:10.1f}", <<Arg(t)>>)
    ELSE IF /\ ~TimeIsNegative(t)
            /\ (t.hi > Limb - 1 \/ (t.hi = Limb - 1 /\ t.lo = Limb - 1))
    THEN Text("{:1.4e}", <<Arg(t)>>)
    ELSE Text("{:10.0f}", <<Arg(t)>>)

\* std::string FormatTime(double time)
FormatTime(t) ==
    IF TimeBelow(t, 1) THEN Text("{:10.3f}", <<Arg(t)>>)
    ELSE IF TimeBelow(t, 10) THEN Text("{:10.2f}", <<Arg(t)>>)
    ELSE IF TimeBelow(t, 100) THEN Text("{:10.1f}", <<Arg(t)>>)
    ELSE IF TimeAboveTenDigits(t) THEN Text("{:1.4e}", <<Arg(t)>>)
    ELSE Text("{:10.0f}", <<Arg(t)>>)

\* How std::format reads the format specifications FormatTime uses:
\* minimum field width, precision and presentation type; without an align
\* option a number is right-aligned in the field.
FormatSpec(fmt) ==
    CASE fmt = "{:10.3f}" ->
            [align |-> "right", width |-> 10, precision |-> 3, type |-> "f"]
      [] fmt = "{:10.2f}" ->
            [align |-> "right", width |-> 10, precision |-> 2, type |-> "f"]
      [] fmt = "{:10.1f}" ->
            [align |-> "right", width |-> 10, precision |-> 1, type |-> "f"]
      [] fmt = "{:10.0f}" ->
            [align |-> "right", width |-> 10, precision |-> 0, type |-> "f"]
      [] fmt = "{:1.4e}" ->
            [align |-> "right", width |-> 1, precision |-> 4, type |-> "e"]
      [] OTHER ->
            [align |-> "none", width |-> 0, precision |-> 0, type |-> "none"]

\* The times explored: around 1, 10, 100 and 9999999999, and 1.0e12.
Times ==
    [neg : BOOLEAN,
     hi : {0, 1, Limb - 2, Limb - 1, Limb, 100 * Limb},
     lo : {0, 1, 5, 9, 10, 50, 99, 100, 500, Limb - 2, Limb - 1},
     frac : 0..(Den - 1)]

InitTime ==
    /\ RunnerIdle
    /\ FmtIdle
    /\ PrintIdle
    /\ PrefixIdle
    /\ time \in Times
    /\ time_str = [kind |-> "text", fmt |-> "", args |-> <<>>]
    /\ tpc = "call"

\* One call of FormatTime(time).
format_time ==
    /\ tpc = "call"
    /\ time_str' = FormatTime(time)
    /\ tpc' = "return"
    /\ UNCHANGED time
    /\ UNCHANGED <<runnerVars, fmtVars, printVars, prefixVars>>

NextTime == format_time

SpecTime == InitTime /\ [][NextTime]_vars

\* void IgnoreColorPrint(out, color, fmt, args...)
IgnoreColorPrint(color, fmt, args) == <<Text(fmt, args)>>

\* ColorPrint writing the text inside the color_code != nullptr branch.
ColorPrint_TextInBranch(color, fmt, args) ==
    LET color_code == GetAnsiColorCode(color)
    IN (IF color_code # "nullptr"
        THEN <<EscColor(color_code), Text(fmt, args)>>
        ELSE <<>>) \o <<EscReset>>

\* void ColorPrint(out, color, fmt, args...)
ColorPrint(color, fmt, args) ==
    LET color_code == GetAnsiColorCode(color)
    IN (IF color_code # "nullptr" THEN <<EscColor(color_code)>> ELSE <<>>)
          \o <<Text(fmt, args), EscReset>>

\* The printer lambda of PrintRunData.
printer(options, color, fmt, args) ==
    IF "OO_Color" \in options
    THEN ColorPrint(color, fmt, args)
    ELSE IgnoreColorPrint(color, fmt, args)

\* strlen(unit) for the units PrintRunData uses.
strlen(unit) == Len(unit)

\* The body of the counter loop for one counter.
CounterField(r, options, counter) ==
    LET counterNameLen == IF Len(counter.first) > 10 THEN Len(counter.first) ELSE 10
        percent == r.run_type = "RT_Aggregate" /\ r.aggregate_unit = "kPercentage"
        s == IF percent
             THEN Text("{:.2}", <<Arg(Times100(counter.second.value))>>)
             ELSE HumanReadableNumber(counter.second.value, counter.second.oneK)
        unit == IF percent THEN "%"
                ELSE IF "kIsRate" \in counter.second.flags
                     THEN (IF "kInvert" \in counter.second.flags THEN "s" ELSE "/s")
                     ELSE ""
    IN IF "OO_Tabular" \in options
       THEN printer(options, "DEFAULT", " {:>{}}{}",
                    <<Arg(s), Arg(counterNameLen - strlen(unit)), Arg(unit)>>)
       ELSE printer(options, "DEFAULT", " {}={}{}",
                    <<Arg(counter.first), Arg(s), Arg(unit)>>)

\* The counter loop visiting result.counters from the last element back.
RECURSIVE CounterFields_Reversed(_, _, _)
CounterFields_Reversed(r, options, i) ==
    IF i > Len(r.counters) THEN <<>>
    ELSE CounterFields_Reversed(r, options, i + 1)
            \o CounterField(r, options, r.counters[i])

\* for (const auto& counter : result.counters) from position i on.
RECURSIVE CounterFields(_, _, _)
CounterFields(r, options, i) ==
    IF i > Len(r.counters) THEN <<>>
    ELSE CounterField(r, options, r.counters[i]) \o CounterFields(r, options, i + 1)

\* The part of PrintRunData after the two early returns.
PrintTimesAndCounters(r, options) ==
    LET real_time == r.adjusted_real_time
        cpu_time == r.adjusted_cpu_time
        real_time_str == FormatTime(real_time)
        cpu_time_str == FormatTime(cpu_time)
        big_o == GetBigOString(r.complexity)
        times ==
            IF r.report_big_o
            THEN printer(options, "YELLOW", "{:10.2} {:<4} {:10.2} {:<4} ",
                         <<Arg(real_time), Arg(big_o), Arg(cpu_time), Arg(big_o)>>)
            ELSE IF r.report_rms
            THEN printer(options, "YELLOW", "{:10.0} {:<4} {:10.0} {:<4} ",
                         <<Arg(Times100(real_time)), Arg("%"),
                           Arg(Times100(cpu_time)), Arg("%")>>)
            ELSE IF r.run_type # "RT_Aggregate" \/ r.aggregate_unit = "kTime"
            THEN printer(options, "YELLOW", "{} {:<4} {} {:<4} ",
                         <<Arg(real_time_str), Arg(r.time_unit),
                           Arg(cpu_time_str), Arg(r.time_unit)>>)
            ELSE printer(options, "YELLOW", "{:10.2} {:<4} {:10.2} {:<4} ",
                         <<Arg(Times100(r.real_accumulated_time)), Arg("%"),
                           Arg(Times100(r.cpu_accumulated_time)), Arg("%")>>)
        iterations ==
            IF ~r.report_big_o /\ ~r.report_rms
            THEN printer(options, "CYAN", "{:>10d}", <<Arg(r.iterations)>>)
            ELSE <<>>
        label ==
            IF r.report_label # ""
            THEN printer(options, "DEFAULT", " {}", <<Arg(r.report_label)>>)
            ELSE <<>>
    IN times \o iterations \o CounterFields(r, options, 1) \o label
          \o printer(options, "DEFAULT", "\n", <<>>)

\* PrintRunData without the return of the SkippedWithError branch.
PrintRunData_ErrorFallsThrough(r, options, width) ==
    LET name_color == IF r.report_big_o \/ r.report_rms THEN "BLUE" ELSE "GREEN"
        name == printer(options, name_color, "{:<{}}",
                        <<Arg(r.benchmark_name), Arg(width + 1)>>)
    IN IF r.skipped = "SkippedWithError"
       THEN name
              \o printer(options, "RED", "ERROR OCCURRED: '{}'",
                         <<Arg(r.skip_message)>>)
              \o printer(options, "DEFAULT", "\n", <<>>)
              \o PrintTimesAndCounters(r, options)
       ELSE IF r.skipped = "SkippedWithMessage"
       THEN name
              \o printer(options, "WHITE", "SKIPPED: '{}'",
                         <<Arg(r.skip_message)>>)
              \o printer(options, "DEFAULT", "\n", <<>>)
       ELSE name \o PrintTimesAndCounters(r, options)

\* void ConsoleReporter::PrintRunData(const Run& result): what it writes.
PrintRunData(r, options, width) ==
    LET name_color == IF r.report_big_o \/ r.report_rms THEN "BLUE" ELSE "GREEN"
        name == printer(options, name_color, "{:<{}}",
                        <<Arg(r.benchmark_name), Arg(width + 1)>>)
    IN IF r.skipped = "SkippedWithError"
       THEN name
              \o printer(options, "RED", "ERROR OCCURRED: '{}'",
                         <<Arg(r.skip_message)>>)
              \o printer(options, "DEFAULT", "\n", <<>>)
       ELSE IF r.skipped = "SkippedWithMessage"
       THEN name
              \o printer(options, "WHITE", "SKIPPED: '{}'",
                         <<Arg(r.skip_message)>>)
              \o printer(options, "DEFAULT", "\n", <<>>)
       ELSE name \o PrintTimesAndCounters(r, options)

\* Counter names in the order of the map result.counters.
CounterNames == <<"bytes", "items", "ops", "reqs">>

\* The counters with the names numbered in S, flags and scale given by f.
RECURSIVE MakeCounters(_, _)
MakeCounters(S, f) ==
    IF S = {} THEN <<>>
    ELSE LET i == CHOOSE k \in S : \A j \in S : k <= j
         IN <<[first |-> CounterNames[i],
               second |-> [value |-> [neg |-> FALSE, n |-> Den + 1, e |-> 1],
                           oneK |-> f[i].oneK,
                           flags |-> f[i].flags]]>>
              \o MakeCounters(S \ {i}, f)

CounterLists ==
    UNION {{MakeCounters(S, f) :
               f \in [S -> [oneK : OneK,
                            flags : {{}, {"kIsRate"}, {"kIsRate", "kInvert"}}]]} :
           S \in SUBSET (1..MaxCounters)}

Runs ==
    [benchmark_name : {"StringCopy"},
     report_big_o : BOOLEAN,
     report_rms : BOOLEAN,
     skipped : {"NotSkipped", "SkippedWithError", "SkippedWithMessage"},
     skip_message : {"why"},
     run_type : {"RT_Iteration", "RT_Aggregate"},
     aggregate_unit : {"kTime", "kPercentage"},
     complexity : {"oN", "oLambda"},
     adjusted_real_time : {[neg |-> FALSE, hi |-> 0, lo |-> 12, frac |-> 1]},
     adjusted_cpu_time : {[neg |-> FALSE, hi |-> 0, lo |-> 5, frac |-> 0]},
     real_accumulated_time : {[neg |-> FALSE, hi |-> 0, lo |-> 1, frac |-> 0]},
     cpu_accumulated_time : {[neg |-> FALSE, hi |-> 0, lo |-> 1, frac |-> 0]},
     time_unit : {"ns"},
     iterations : {1000},
     counters : CounterLists,
     report_label : {"", "label"}]

InitPrint ==
    /\ RunnerIdle
    /\ FmtIdle
    /\ TimeIdle
    /\ PrefixIdle
    /\ result \in Runs
    /\ output_options_ \in SUBSET {"OO_Color", "OO_Tabular"}
    /\ name_field_width_ \in {10}
    /\ Out = <<>>
    /\ ppc = "call"

\* One call of PrintRunData(result).
print_run_data ==
    /\ ppc = "call"
    /\ Out' = PrintRunData(result, output_options_, name_field_width_)
    /\ ppc' = "return"
    /\ UNCHANGED <<result, output_options_, name_field_width_>>
    /\ UNCHANGED <<runnerVars, fmtVars, timeVars, prefixVars>>

NextPrint == print_run_data

SpecPrint == InitPrint /\ [][NextPrint]_vars

(* ------------------------------- claims -------------------------------- *)
\* A step taken on one and the same live BenchmarkState object.
SameObject == pc = "execute" /\ pc' = "execute" /\ sid' = sid

NamesOf(bs, n) == [i \in 1..n |-> bs[i].name_]

\* C1: with iteration_count N > 0, keep_running() on a fresh object returns
\* true on calls 1..N and false on call N+1 (and not before); from then on
\* exactly N samples are recorded; no sample is negative.
C1_CountedLoop ==
    pc = "execute" =>
        LET N == state.total_iterations_
        IN /\ calls <= N => (trues = calls /\ ret # "false")
           /\ calls >= N + 1 =>
                 /\ ret = "false"
                 /\ trues = N
                 /\ Len(state.iterations_time_) = N
           /\ \A i \in 1..Len(state.iterations_time_) :
                 state.iterations_time_[i] >= 0

\* The while-loop of test_sleep_1ms has just seen false on call N+1, with
\* N >= 2 and an interval that took time.
C1_Witness ==
    /\ pc = "execute"
    /\ benchmarks[idx].function_ = "loop"
    /\ state.total_iterations_ >= 2
    /\ calls = state.total_iterations_ + 1
    /\ ret = "false"
    /\ \E i \in 1..Len(state.iterations_time_) : state.iterations_time_[i] > 0

\* C2: once keep_running() has returned false on an object, each later call
\* on it returns false and leaves the recorded samples as they were.
C2_IdempotentTermination ==
    [][(SameObject /\ ret = "false")
         => (ret' = "false"
             /\ state'.iterations_time_ = state.iterations_time_)]_vars

\* Two calls were made after the one that returned false first.
C2_Witness ==
    /\ pc = "execute"
    /\ ret = "false"
    /\ calls = state.total_iterations_ + 3
    /\ Len(state.iterations_time_) = state.total_iterations_

\* C3: the first keep_running() call on an object that is marked Skipped
\* returns false, records no sample and leaves the object Skipped.
C3_SkipShortCircuit ==
    [][(SameObject /\ calls = 0 /\ calls' = 1 /\ state.state_ = "Skipped")
         => (/\ ret' = "false"
             /\ state'.iterations_time_ = <<>>
             /\ state'.state_ = "Skipped")]_vars

\* The first call was made on a skipped object (with N > 0 a first call on
\* an object that is not skipped returns true).
C3_Witness ==
    /\ pc = "execute"
    /\ calls = 1
    /\ ret = "false"
    /\ state.state_ = "Skipped"
    /\ state.total_iterations_ > 0

C5_MonotonicState ==
    [][SameObject
         => (/\ state.state_ \in {"Finished", "Skipped"}
                   => state'.state_ = state.state_
             /\ state'.state_ = "NotStarted" => state.state_ = "NotStarted")]_vars

\* A Finished object took further keep_running() calls.
C5_Witness ==
    /\ pc = "execute"
    /\ state.state_ = "Finished"
    /\ calls > state.total_iterations_ + 1
    /\ trues = state.total_iterations_

\* C6: remaining_iterations never exceeds total_iterations, and it is not
\* negative once the tag is Finished.
C6_RemainingBounds ==
    pc = "execute" =>
        /\ remaining_iterations(state) <= state.total_iterations_
        /\ state.state_ = "Finished" => remaining_iterations(state) >= 0

\* A keep_running() call on one and the same live BenchmarkState object.
Call == SameObject /\ calls' = calls + 1

\* C12: the first call on a fresh object moves it from NotStarted to Started
\* and records nothing; a call on a Started object appends one sample, the
\* clock read by this call minus the begin_ the previous call left, whether
\* or not it then returns true; a call that returns true leaves in begin_ a
\* reading taken after the one the sample was computed from.
C12_FusedCloseOut ==
    [][Call =>
         /\ (state.state_ = "NotStarted" /\ state.total_iterations_ > 0) =>
               /\ state'.state_ = "Started"
               /\ state'.iterations_time_ = state.iterations_time_
         /\ state.state_ = "Started" =>
               /\ state'.iterations_time_
                     = Append(state.iterations_time_, state'.end_ - state.begin_)
               /\ clock <= state'.end_
               /\ state'.end_ <= clock'
         /\ ret' = "true" =>
               /\ state'.begin_ = clock'
               /\ state'.begin_ >= state'.end_]_vars

\* A third call returned true after closing out an interval that took time,
\* and read the clock again later for begin_.
C12_Witness ==
    /\ pc = "execute"
    /\ calls = 3
    /\ ret = "true"
    /\ Len(state.iterations_time_) = 2
    /\ state.iterations_time_[2] > 0
    /\ state.begin_ > state.end_

\* C13: the call that finds remaining_iterations <= 0 makes the object
\* Finished, returns false and leaves begin_ as it was.
C13_NoNewInterval ==
    [][(Call /\ state.state_ \in {"NotStarted", "Started"}
             /\ state.remaining_iterations_ <= 0)
         => (/\ state'.state_ = "Finished"
             /\ ret' = "false"
             /\ state'.begin_ = state.begin_)]_vars

\* The capacity reserved by the constructor: reserve(total_iterations_).
Reserved(s) == s.total_iterations_

\* C14: the number of recorded samples never exceeds total_iterations, the
\* capacity reserved at construction, whatever calls have been made.
C14_WithinReservation ==
    pc = "execute" => Len(state.iterations_time_) <= Reserved(state)

\* The buffer is full and a call was made after the end.
C14_Witness ==
    /\ pc = "execute"
    /\ state.total_iterations_ > 0
    /\ Len(state.iterations_time_) = Reserved(state)
    /\ calls = state.total_iterations_ + 2
    /\ state.state_ = "Finished"

\* C18: after the i-th call that returned true the object is Started,
\* remaining_iterations() is N - i and i - 1 samples are recorded; in every
\* Started state samples + remaining_iterations + 1 = total_iterations.
C18_Bookkeeping ==
    pc = "execute" =>
        /\ (ret = "true" /\ trues \in 1..state.total_iterations_) =>
              /\ state.state_ = "Started"
              /\ remaining_iterations(state) = state.total_iterations_ - trues
              /\ Len(state.iterations_time_) = trues - 1
        /\ state.state_ = "Started" =>
              Len(state.iterations_time_) + remaining_iterations(state) + 1
                 = state.total_iterations_

\* The third call on an object of 3 iterations returned true: 2 samples
\* are recorded and no iteration remains.
C18_Witness ==
    /\ pc = "execute"
    /\ state.total_iterations_ = 3
    /\ ret = "true"
    /\ trues = 3
    /\ state.state_ = "Started"
    /\ remaining_iterations(state) = 0
    /\ Len(state.iterations_time_) = 2

\* C19: on a constructed object, under any sequence of keep_running() and
\* remaining_iterations() calls, the tag is NotStarted, Started or Finished,
\* never Skipped, and a call changes the tag only from NotStarted to
\* Started, from Started to Finished, or, when iteration_count is 0, from
\* NotStarted to Finished.
C19_SkippedUnreachable ==
    [][/\ pc' = "execute" =>
             state'.state_ \in {"NotStarted", "Started", "Finished"}
       /\ (SameObject /\ state'.state_ # state.state_) =>
             \/ state.state_ = "NotStarted" /\ state'.state_ = "Started"
             \/ state.state_ = "Started" /\ state'.state_ = "Finished"
             \/ /\ state.state_ = "NotStarted" /\ state'.state_ = "Finished"
                /\ state.total_iterations_ = 0]_vars

\* An object of 0 iterations went from NotStarted to Finished in its first
\* call and remaining_iterations() was called on it afterwards.
C19_Witness ==
    /\ pc = "execute"
    /\ state.total_iterations_ = 0
    /\ calls = 1
    /\ state.state_ = "Finished"
    /\ observed = <<0 - 1>>

\* C20: with iteration_count 0 the first keep_running() returns false, leaves
\* the object Finished and records no sample; every later call returns false
\* and changes neither remaining_iterations nor the samples.
C20_ZeroIterations ==
    [][(Call /\ state.total_iterations_ = 0) =>
          /\ ret' = "false"
          /\ state'.state_ = "Finished"
          /\ state'.iterations_time_ = <<>>
          /\ calls > 0 =>
                /\ remaining_iterations(state') = remaining_iterations(state)
                /\ state'.iterations_time_ = state.iterations_time_]_vars

\* A second call was made on an object of 0 iterations.
C20_Witness ==
    /\ pc = "execute"
    /\ state.total_iterations_ = 0
    /\ calls = 2
    /\ ret = "false"
    /\ state.state_ = "Finished"
    /\ state.iterations_time_ = <<>>

(* ----------------------- claims on the formatter ----------------------- *)
Base == OneKValue(one_k)
\* |val| and val / Base^k.
Magnitude == [val EXCEPT !.neg = FALSE]
Scaled(v, k) == IF v.n = 0 THEN v ELSE [v EXCEPT !.e = @ - k]
\* small_threshold <= m <= big_threshold
InBand(m) ==
    /\ Compare(m, Base, AdjustedThreshold(precision), 1) >= 0
    /\ Compare(m, Base, BigThreshold(precision, Base), 1) <= 0

\* C9 as claimed: a value m * base^k with m in the band, k in 1..8 or in
\* -8..-1, gets exponent k and mantissa m.
C9_RoundTrip_AsClaimed ==
    (fpc = "return" /\ ~val.neg) =>
        \A k \in ((0 - kUnitsSize)..kUnitsSize) \ {0} :
            InBand(Scaled(val, k)) =>
                (exponent = k /\ mantissa = Scaled(val, k))

\* C9 as amended: a value m * base^k with m in the band gets exponent k and
\* mantissa m for k in 1..8, and for k in -8..-1 when the value is below
\* simple_threshold (0.01); a value of that form that is not below 0.01 is
\* emitted unscaled with exponent 0.
C9_RoundTrip ==
    (fpc = "return" /\ ~val.neg) =>
        \A k \in ((0 - kUnitsSize)..kUnitsSize) \ {0} :
            InBand(Scaled(val, k)) =>
                IF k > 0 \/ Compare(val, Base, 1, 100) < 0
                THEN exponent = k /\ mantissa = Scaled(val, k)
                ELSE exponent = 0 /\ mantissa = val

\* big_threshold * 1024^-8 was formatted with precision 1.
C9_Witness ==
    /\ fpc = "return"
    /\ one_k = "kIs1024"
    /\ precision = 1
    /\ val = [neg |-> FALSE, n |-> 1023 * Den, e |-> 0 - 8]
    /\ exponent = 0 - 8
    /\ mantissa = [neg |-> FALSE, n |-> 1023 * Den, e |-> 0]

\* The smallest element of a non-empty set of integers.
Least(S) == CHOOSE k \in S : \A j \in S : k <= j

\* C10: a value equal to big_threshold gets exponent 0, the value one above
\* gets exponent 1; a value above big_threshold gets the least k in 1..8
\* with val / base^k <= big_threshold and the mantissa val / base^k, and
\* exponent 0 with the unscaled value when there is no such k.
C10_PositivePrefix ==
    fpc = "return" =>
        LET big == BigThreshold(precision, Base)
            K == {k \in 1..kUnitsSize :
                     Compare(Scaled(Magnitude, k), Base, big, 1) <= 0}
        IN /\ Compare(Magnitude, Base, big, 1) = 0 =>
                 (exponent = 0 /\ mantissa = val)
           /\ Compare(Magnitude, Base, big + 1, 1) = 0 =>
                 (exponent = 1 /\ mantissa = Scaled(val, 1))
           /\ Compare(Magnitude, Base, big, 1) > 0 =>
                 IF K # {}
                 THEN exponent = Least(K) /\ mantissa = Scaled(val, Least(K))
                 ELSE exponent = 0 /\ mantissa = val

\* The value one above big_threshold (1000 for base 1000) was formatted.
C10_Witness ==
    /\ fpc = "return"
    /\ one_k = "kIs1000"
    /\ precision = 1
    /\ val = [neg |-> FALSE, n |-> Den, e |-> 1]
    /\ exponent = 1
    /\ str = <<[neg |-> FALSE, n |-> Den, e |-> 0], "k">>

\* C15: with precision 1 a value with 0.01 <= val <= big_threshold is emitted
\* as-is with exponent 0; a value with 0 < val < 0.01 gets exponent -k for
\* the least k in 1..8 with val * base^k >= small_threshold and the mantissa
\* val * base^k; when there is no such k, val = 0 included, the unscaled
\* value is emitted with exponent 0.
C15_SubUnitAndPlain ==
    (fpc = "return" /\ precision = 1 /\ ~val.neg) =>
        LET small == AdjustedThreshold(precision)
            big == BigThreshold(precision, Base)
            K == {k \in 1..Len(kSmallSIUnits) :
                     Compare(Scaled(val, 0 - k), Base, small, 1) >= 0}
        IN IF /\ Compare(val, Base, 1, 100) >= 0
              /\ Compare(val, Base, big, 1) <= 0
           THEN exponent = 0 /\ mantissa = val
           ELSE IF Compare(val, Base, 1, 100) < 0
           THEN IF K # {}
                THEN /\ exponent = 0 - Least(K)
                     /\ mantissa = Scaled(val, 0 - Least(K))
                ELSE exponent = 0 /\ mantissa = val
           ELSE TRUE

\* 1000^-2 was formatted with precision 1: exponent -2 and mantissa 1.
C15_Witness ==
    /\ fpc = "return"
    /\ one_k = "kIs1000"
    /\ precision = 1
    /\ val = [neg |-> FALSE, n |-> Den, e |-> 0 - 2]
    /\ exponent = 0 - 2
    /\ str = <<[neg |-> FALSE, n |-> Den, e |-> 0], "u">>

\* C16: ExponentToPrefix returns the empty suffix for exponent 0 and for
\* |exponent| > 8; for exponent k in 1..8 it returns entry k-1 of the IEC
\* table when iec and of the SI big table otherwise; for exponent -k with k
\* in 1..8 it returns entry k-1 of the SI small table whatever iec is.
C16_PrefixTotal ==
    xpc = "return" =>
        LET k == IF prefix_exponent < 0 THEN 0 - prefix_exponent
                 ELSE prefix_exponent
        IN /\ (k = 0 \/ k > 8) => prefix = ""
           /\ prefix_exponent \in 1..8 =>
                 prefix = IF prefix_iec THEN kBigIECUnits[k]
                          ELSE kBigSIUnits[k]
           /\ (0 - prefix_exponent) \in 1..8 => prefix = kSmallSIUnits[k]

\* ExponentToPrefix(-3, true) returned "n".
C16_Witness ==
    /\ xpc = "return"
    /\ prefix_exponent = 0 - 3
    /\ prefix_iec
    /\ prefix = "n"

(* ------------------------ claims on the reporter ----------------------- *)
\* The line with the escape sequences ESC[0;3<digit>m and ESC[m removed.
StripAnsi(line) == SelectSeq(line, LAMBDA t : t.kind = "text")
IsError == result.skipped = "SkippedWithError"
IsSkip == result.skipped = "SkippedWithMessage"

\* C7: the line printed without OO_Color is the line printed with OO_Color
\* with its escape sequences removed, for either tabular setting.
C7_ColorDropIn ==
    ppc = "return" =>
        IF "OO_Color" \in output_options_
        THEN StripAnsi(Out)
               = PrintRunData(result, output_options_ \ {"OO_Color"},
                              name_field_width_)
        ELSE Out
               = StripAnsi(PrintRunData(result, output_options_ \cup {"OO_Color"},
                                        name_field_width_))

\* A coloured, tabular line with two counters and a label was printed.
C7_Witness ==
    /\ ppc = "return"
    /\ output_options_ = {"OO_Color", "OO_Tabular"}
    /\ result.skipped = "NotSkipped"
    /\ Len(result.counters) = 2
    /\ result.report_label # ""
    /\ \E i \in 1..Len(Out) : Out[i].kind = "color"
    /\ Len(StripAnsi(Out)) = 6

\* C8: for an error or a skip the line is the name field, one message field
\* (red for an error, white for a skip) and the line terminator, whatever
\* the mode flags, counters and label of the result are.
C8_ErrorOrSkipLine ==
    (ppc = "return" /\ (IsError \/ IsSkip)) =>
        LET name == Text("{:<{}}", <<Arg(result.benchmark_name),
                                     Arg(name_field_width_ + 1)>>)
            message == Text(IF IsError THEN "ERROR OCCURRED: '{}'"
                                       ELSE "SKIPPED: '{}'",
                            <<Arg(result.skip_message)>>)
            newline == Text("\n", <<>>)
        IN /\ StripAnsi(Out) = <<name, message, newline>>
           /\ "OO_Color" \in output_options_ =>
                 /\ Len(Out) = 8
                 /\ Out[4] = EscColor(IF IsError THEN "1" ELSE "7")
                 /\ Out[5] = message

\* An error result in RMS mode with two counters and a label was printed.
C8_Witness ==
    /\ ppc = "return"
    /\ IsError
    /\ result.report_rms
    /\ Len(result.counters) = 2
    /\ result.report_label # ""
    /\ "OO_Color" \in output_options_
    /\ Len(Out) = 8

(* ------------------------- claims on FormatTime ------------------------ *)
\* The bands of the time column, read off the value of time.
Band ==
    IF TimeIsNegative(time) \/ (time.hi = 0 /\ time.lo = 0) THEN "below 1"
    ELSE IF time.hi = 0 /\ time.lo \in 1..9 THEN "1 to 10"
    ELSE IF time.hi = 0 /\ time.lo \in 10..99 THEN "10 to 100"
    ELSE IF \/ time.hi < Limb - 1
            \/ (time.hi = Limb - 1 /\ (time.lo < Limb - 1 \/ time.frac = 0))
    THEN "100 to 9999999999"
    ELSE "above 9999999999"

\* C11: FormatTime renders a time below 1.0 with 3 decimals, in [1, 10) with
\* 2, in [10, 100) with 1, in [100, 9999999999] with 0, each right-aligned
\* in a field of width 10, and a time above 9999999999 in scientific
\* notation with 4 decimals.
C11_FormatTimeBands ==
    tpc = "return" =>
        LET f == FormatSpec(time_str.fmt)
            fixed(d) == f = [align |-> "right", width |-> 10,
                             precision |-> d, type |-> "f"]
        IN /\ time_str.args = <<Arg(time)>>
           /\ Band = "below 1" => fixed(3)
           /\ Band = "1 to 10" => fixed(2)
           /\ Band = "10 to 100" => fixed(1)
           /\ Band = "100 to 9999999999" => fixed(0)
           /\ Band = "above 9999999999" => (f.type = "e" /\ f.precision = 4)

\* 9999999999 was formatted with no decimals in a field of width 10.
C11_Witness ==
    /\ tpc = "return"
    /\ time = [neg |-> FALSE, hi |-> Limb - 1, lo |-> Limb - 1, frac |-> 0]
    /\ time_str.fmt = "{:10.0f}"

(* ----------------------- claims on the field order --------------------- *)
\* The time-field layout PrintRunData selects for the result's mode.
TimeLayout ==
    IF result.report_big_o THEN "complexity"
    ELSE IF result.report_rms THEN "rms"
    ELSE IF result.run_type # "RT_Aggregate" \/ result.aggregate_unit = "kTime"
    THEN "time"
    ELSE "percentage"

\* C17: for a result that is neither an error nor a skip the line is the
\* name field, then exactly one time field in the layout of the result's
\* mode, then the iteration field iff the mode is neither complexity nor
\* RMS, then one counter field per counter in the stored order, then the
\* label iff it is non-empty, and the line terminator last.
C17_FieldOrder ==
    (ppc = "return" /\ ~IsError /\ ~IsSkip) =>
        LET L == StripAnsi(Out)
            n == Len(result.counters)
            it == IF TimeLayout \in {"time", "percentage"} THEN 1 ELSE 0
            lb == IF result.report_label # "" THEN 1 ELSE 0
        IN /\ Len(L) = 2 + it + n + lb + 1
           /\ L[1] = Text("{:<{}}", <<Arg(result.benchmark_name),
                                      Arg(name_field_width_ + 1)>>)
           /\ L[2].fmt = CASE TimeLayout = "complexity"
                                -> "{:10.2} {:<4} {:10.2} {:<4} "
                            [] TimeLayout = "rms"
                                -> "{:10.0} {:<4} {:10.0} {:<4} "
                            [] TimeLayout = "time" -> "{} {:<4} {} {:<4} "
                            [] OTHER -> "{:10.2} {:<4} {:10.2} {:<4} "
           /\ L[2].args[2] = CASE TimeLayout = "complexity"
                                    -> Arg(GetBigOString(result.complexity))
                                [] TimeLayout = "time" -> Arg(result.time_unit)
                                [] OTHER -> Arg("%")
           /\ it = 1 => L[3] = Text("{:>10d}", <<Arg(result.iterations)>>)
           /\ \A i \in 1..n :
                 /\ L[2 + it + i]
                       = StripAnsi(CounterField(result, output_options_,
                                                result.counters[i]))[1]
                 /\ "OO_Tabular" \notin output_options_ =>
                       /\ L[2 + it + i].fmt = " {}={}{}"
                       /\ L[2 + it + i].args[1] = Arg(result.counters[i].first)
           /\ lb = 1 =>
                 L[2 + it + n + 1] = Text(" {}", <<Arg(result.report_label)>>)
           /\ L[Len(L)] = Text("\n", <<>>)

\* A plain iteration result with two counters and a label was printed as
\* name, times, iterations, bytes, items, label and the terminator.
C17_Witness ==
    /\ ppc = "return"
    /\ result.skipped = "NotSkipped"
    /\ TimeLayout = "time"
    /\ Len(result.counters) = 2
    /\ result.report_label # ""
    /\ "OO_Tabular" \notin output_options_
    /\ Len(StripAnsi(Out)) = 7
    /\ StripAnsi(Out)[4].args[1] = Arg("bytes")
    /\ StripAnsi(Out)[5].args[1] = Arg("items")

====
